---- MODULE Spec2Model ----
(***************************************************************************)
(* Upload workflow of src/src/app/page.tsx (component Home).               *)
(*                                                                         *)
(* The component runs on one event loop.  Each action below is one         *)
(* synchronous run of handler code between two suspension points (await,   *)
(* setTimeout): a click, the completion of the file hash, the arrival of   *)
(* the HTTP response, the firing of the 2 s timer, a file selection.       *)
(* A handler invocation keeps the values of `file` and `previousHash` of   *)
(* the render in which the click happened (a JavaScript closure).          *)
(***************************************************************************)
EXTENDS Naturals, Integers, Sequences, FiniteSets, TLC

\* ------------------------------------------------------------------ bounds
\* Number of handleUpload invocations (and their timers) alive at once.
MaxHandlers == 2
\* Clipboard writes whose promise has not settled.
MaxCopies == 1

\* --------------------------------------------------------------- constants
MaxFileSize == 3 * 1024 * 1024
DigestLen == 32
TooLargeStatus == 413

MSG_SIZE == "Ukuran file maksimal 3MB"
MSG_TYPE == "Hanya mendukung file berformat JPEG atau PNG"
MSG_INVALID == "File tidak valid"
MSG_NO_FILE == "Silakan upload file terlebih dahulu!"
MSG_DUP_PENDING == "Gambar sudah diproses sebelumnya..."
MSG_DUP_DONE == "Gambar sudah diproses sebelumnya!"
MSG_UPLOADING == "Mengunggah file..."
MSG_UPLOADED == "File berhasil diunggah!"
MSG_TOO_LARGE == "File terlalu besar! Ukuran file harus di bawah 3MB."
MSG_FAILED == "Gagal mengunggah file! Silakan coba lagi."
MSG_COPIED == "Kode HEX berhasil disalin!"
MSG_COPY_FAILED == "Gagal menyalin kode HEX."

AllowedTypes == {"image/jpeg", "image/png", "image/jpg"}

\* ------------------------------------------------------------------ inputs
\* The value null of `file`.
NoFile == [name |-> "", bytes |-> <<>>, size |-> 0, type |-> ""]

\* Files the user can pick.  `bytes` stands for the content, `size` is the
\* File.size the browser reports, `type` the declared media type.
Files ==
  { [name |-> "photo.jpg", bytes |-> <<7, 200>>, size |-> 2097152, type |-> "image/jpeg"],
    [name |-> "edge.png",  bytes |-> <<16, 3>>,  size |-> MaxFileSize, type |-> "image/png"],
    [name |-> "copy.jpg",  bytes |-> <<7, 200>>, size |-> 2097152, type |-> "image/jpg"],
    [name |-> "big.jpg",   bytes |-> <<9>>,      size |-> MaxFileSize + 1, type |-> "image/jpeg"],
    [name |-> "anim.gif",  bytes |-> <<1, 2>>,   size |-> 1024, type |-> "image/gif"],
    [name |-> "big.gif",   bytes |-> <<5>>,      size |-> MaxFileSize + 1, type |-> "image/gif"] }

FileByName(n) == CHOOSE f \in Files : f.name = n

\* Lists handed to handleFileChange by the picker.
FileLists ==
  {<<>>} \cup { <<f>> : f \in Files }
         \cup { <<FileByName("photo.jpg"), FileByName("big.gif")>>,
                <<FileByName("big.gif"), FileByName("edge.png")>> }

Colors == {"#112233", "#3A7BD5"}
\* The JavaScript value undefined, as stored by setHexColor(undefined).
Undefined == "undefined"

\* Outcomes of axios.post: a fulfilled promise (2xx) with its data, or a
\* rejection, with error.response.status when the server answered.
Responses ==
  { [ok |-> TRUE, status |-> 200, data |-> "object", hex_color |-> c] : c \in Colors }
  \cup { [ok |-> TRUE,  status |-> 200, data |-> "object", hex_color |-> Undefined],
         [ok |-> TRUE,  status |-> 200, data |-> "null",   hex_color |-> Undefined],
         [ok |-> FALSE, status |-> TooLargeStatus, data |-> "none", hex_color |-> Undefined],
         [ok |-> FALSE, status |-> 500, data |-> "none", hex_color |-> Undefined],
         [ok |-> FALSE, status |-> 0,   data |-> "none", hex_color |-> Undefined] }
NoResponse == [ok |-> FALSE, status |-> 0, data |-> "unset", hex_color |-> Undefined]

\* ------------------------------------------------------------ fingerprint
HexDigit == <<"0","1","2","3","4","5","6","7","8","9","a","b","c","d","e","f">>

\* b.toString(16).padStart(2, "0")
ByteToHex(b) ==
  IF b < 16 THEN "0" \o HexDigit[b + 1]
  ELSE HexDigit[(b \div 16) + 1] \o HexDigit[(b % 16) + 1]

RECURSIVE Join(_)
Join(s) == IF s = <<>> THEN "" ELSE Head(s) \o Join(Tail(s))

RECURSIVE Mix(_, _)
Mix(bytes, i) ==
  IF bytes = <<>> THEN i
  ELSE (Head(bytes) * (2 * i + 1) + 131 * Mix(Tail(bytes), i + 1) + 7) % 256

\* crypto.subtle.digest("SHA-256", buffer): a DigestLen-byte array that is a
\* function of the content alone.  The compression function itself is
\* replaced by Mix, which is collision-free on the contents of Files.
Digest(bytes) == [i \in 1..DigestLen |-> Mix(bytes, i)]

calculateFileHash(f) ==
  LET hashArray == Digest(f.bytes)
  IN  Join([i \in 1..DigestLen |-> ByteToHex(hashArray[i])])

\* The fingerprint of each file that can be picked (calculateFileHash,
\* tabulated).
Fingerprint == [f \in Files |-> calculateFileHash(f)]

\* -------------------------------------------------------------- validation
fileSchema_typeFirst(f) ==
  (IF f.type \notin AllowedTypes THEN <<MSG_TYPE>> ELSE <<>>)
  \o (IF ~(f.size <= MaxFileSize) THEN <<MSG_SIZE>> ELSE <<>>)

fileSchema_strictSize(f) ==
  (IF ~(f.size < MaxFileSize) THEN <<MSG_SIZE>> ELSE <<>>)
  \o (IF f.type \notin AllowedTypes THEN <<MSG_TYPE>> ELSE <<>>)

\* fileSchema.safeParse({file}).error.errors: the refinements run in order
\* and each failing one adds its issue (a failed refine does not stop the
\* next one); empty when the parse succeeds.  The picker hands over File
\* objects only, so the `instanceof File` check always passes.
fileSchema(f) ==
  (IF ~(f.size <= MaxFileSize) THEN <<MSG_SIZE>> ELSE <<>>)
  \o (IF f.type \notin AllowedTypes THEN <<MSG_TYPE>> ELSE <<>>)

\* ------------------------------------------------------------------- state
VARIABLES
  file,          \* useState<File | null>
  hexColor,      \* useState<string>
  preview,       \* useState<string>: the object URL
  loading,       \* useState<boolean>
  previousHash,  \* useState<string>
  apiUrl,        \* process.env.NEXT_PUBLIC_API_URL is set
  handlers,      \* the handleUpload invocations that have not finished
  toasts,        \* the loading toasts on screen (they stay until dismissed)
  writes,        \* the number of clipboard writes that have not settled
  notified,      \* the toast calls made by the last step, in order
  event,         \* the last step
  hexFile,       \* history: the file whose response set hexColor
  lastSettled    \* history: the submission that settled last

vars == <<file, hexColor, preview, loading, previousHash, apiUrl, handlers,
          toasts, writes, notified, event, hexFile, lastSettled>>

Slots == 1..MaxHandlers

NoPreview == [of |-> "", n |-> 0]
\* URL.createObjectURL(f): a URL of f not handed out before.  The state holds
\* one URL at a time, so two serial numbers tell a new URL from the held one.
createObjectURL(f) == [of |-> f.name, n |-> IF preview.n = 1 THEN 2 ELSE 1]

NoSettled == [hash |-> "", out |-> "none"]
IdleHandler == [pc |-> "idle", file |-> NoFile, previousHash |-> "", prior |-> "none"]

\* toast calls
Loading(id, m) == [op |-> "loading", id |-> id, msg |-> m]
Success(m) == [op |-> "success", id |-> 0, msg |-> m]
Error(m) == [op |-> "error", id |-> 0, msg |-> m]
Dismiss(id) == [op |-> "dismiss", id |-> id, msg |-> ""]
DismissAll == [op |-> "dismissAll", id |-> 0, msg |-> ""]

\* The last step: the handler that ran, the branch it took, and its inputs.
Ev(kind, out, slot, f, r, l) ==
  [kind |-> kind, out |-> out, slot |-> slot, file |-> f, resp |-> r, list |-> l,
   prior |-> "none", text |-> ""]

Init ==
  /\ file = NoFile
  /\ hexColor = ""
  /\ preview = NoPreview
  /\ loading = FALSE
  /\ previousHash = ""
  /\ apiUrl \in BOOLEAN
  /\ handlers = [s \in Slots |-> IdleHandler]
  /\ toasts = {}
  /\ writes = 0
  /\ notified = <<>>
  /\ event = Ev("init", "", 0, NoFile, NoResponse, <<>>)
  /\ hexFile = NoFile
  /\ lastSettled = NoSettled

\* ------------------------------------------------------------ file intake
\* const uploadedFile = uploadedFiles[0]
FirstFile_last(uploadedFiles) == uploadedFiles[Len(uploadedFiles)]

FirstFile(uploadedFiles) == uploadedFiles[1]

\* handleFileChange(uploadedFiles)
handleFileChange(uploadedFiles) ==
  /\ event' = Ev("fileChange",
                 IF uploadedFiles = <<>> THEN "empty"
                 ELSE IF fileSchema(uploadedFiles[1]) = <<>> THEN "accepted" ELSE "rejected",
                 0, IF uploadedFiles = <<>> THEN NoFile ELSE uploadedFiles[1],
                 NoResponse, uploadedFiles)
  /\ IF Len(uploadedFiles) > 0
     THEN LET uploadedFile == FirstFile(uploadedFiles)
              errors == fileSchema(uploadedFile)
          IN  IF errors # <<>>
              THEN /\ notified' = <<Error(IF Len(errors) >= 1 THEN errors[1] ELSE MSG_INVALID)>>
                   /\ UNCHANGED <<file, preview, hexColor, hexFile>>
              ELSE /\ file' = uploadedFile
                   /\ preview' = createObjectURL(uploadedFile)
                   /\ hexColor' = ""
                   /\ hexFile' = NoFile
                   /\ notified' = <<>>
     ELSE /\ notified' = <<>>
          /\ UNCHANGED <<file, preview, hexColor, hexFile>>
  /\ UNCHANGED <<loading, previousHash, apiUrl, handlers, toasts, writes, lastSettled>>

FileChange == \E l \in FileLists : handleFileChange(l)

\* ----------------------------------------------------------------- submit
\* <button disabled={loading}>: a click on a disabled button calls nothing.
ButtonDisabled_never == FALSE

ButtonDisabled == loading

\* if (!file)
HasFile(f) == f # NoFile

\* toast.error("Silakan upload file terlebih dahulu!"); return
NoFileToasts_silent == <<>>

NoFileToasts == <<Error(MSG_NO_FILE)>>

\* currentHash === previousHash, with the previousHash of the closure
IsDuplicate_never(currentHash, prevHash) == FALSE

IsDuplicate_live(currentHash, prevHash) == currentHash = previousHash

IsDuplicate(currentHash, prevHash) == currentHash = prevHash

\* const currentHash = await calculateFileHash(file), with the file of the
\* closure of invocation s
currentHash_ofSelected(s) == Fingerprint[file]

currentHash(s) == Fingerprint[handlers[s].file]

\* catch (error): toast.dismiss(), then one toast.error chosen by
\* error.response?.status (0: the error carries no response)
CatchToasts(status) ==
  <<DismissAll, Error(IF status = TooLargeStatus THEN MSG_TOO_LARGE ELSE MSG_FAILED)>>

\* finally { setLoading(false) }: the value of `loading` after the handler,
\* given the value its try/catch part left
FinallyLoading_missing(cur) == cur

FinallyLoading(cur) == FALSE

\* if (!apiUrl) throw new Error("API URL is not defined")
ApiUrlMissing_unchecked == FALSE

ApiUrlMissing == ~apiUrl

FreeSlots == { s \in Slots : handlers[s].pc = "idle" }
LowestFree == CHOOSE s \in FreeSlots : \A t \in FreeSlots : s <= t
Without(id) == { t \in toasts : t.id # id }
Settled(hash, out) == [hash |-> hash, out |-> out]

\* History: "succeeded" when the submission that settled last was of the
\* same bytes as f and got a successful response.
PriorOf(f) ==
  IF lastSettled = Settled(Fingerprint[f], "succeeded") THEN "succeeded" ELSE "other"

\* A click on the disabled submit button.
ClickDisabled ==
  /\ ButtonDisabled
  /\ event' = Ev("click", "disabled", 0, file, NoResponse, <<>>)
  /\ notified' = <<>>
  /\ UNCHANGED <<file, hexColor, preview, loading, previousHash, apiUrl, handlers,
                 toasts, writes, hexFile, lastSettled>>

\* handleUpload, from the click to the first await
ClickUpload ==
  /\ ~ButtonDisabled
  /\ IF ~HasFile(file)
     THEN /\ notified' = NoFileToasts
          /\ event' = Ev("click", "nofile", 0, file, NoResponse, <<>>)
          /\ UNCHANGED handlers
     ELSE /\ FreeSlots # {}
          /\ LET s == LowestFree
             IN  /\ handlers' = [handlers EXCEPT ![s] =
                        [pc |-> "hashing", file |-> file, previousHash |-> previousHash,
                         prior |-> PriorOf(file)]]
                 /\ event' = Ev("click", "started", s, file, NoResponse, <<>>)
          /\ notified' = <<>>
  /\ UNCHANGED <<file, hexColor, preview, loading, previousHash, apiUrl, toasts,
                 writes, hexFile, lastSettled>>

\* handleUpload, from the resolution of calculateFileHash to the return of
\* the duplicate branch, the throw of the missing URL, or the await of
\* axios.post; `finally` runs in the first two.
HashDone(s) ==
  /\ handlers[s].pc = "hashing"
  /\ LET h == handlers[s]
         hash == currentHash(s)
         ev(out) == [Ev("hashed", out, s, h.file, NoResponse, <<>>) EXCEPT !.prior = h.prior]
     IN  IF IsDuplicate(hash, h.previousHash)
         THEN /\ toasts' = toasts \cup {[id |-> s, msg |-> MSG_DUP_PENDING]}
              /\ notified' = <<Loading(s, MSG_DUP_PENDING)>>
              /\ handlers' = [handlers EXCEPT ![s].pc = "timer"]
              /\ loading' = FinallyLoading(loading)
              /\ lastSettled' = Settled(hash, "duplicate")
              /\ event' = ev("duplicate")
         ELSE IF ApiUrlMissing
         THEN /\ toasts' = {}
              /\ notified' = <<Loading(s, MSG_UPLOADING)>> \o CatchToasts(0)
              /\ handlers' = [handlers EXCEPT ![s] = IdleHandler]
              /\ loading' = FinallyLoading(TRUE)
              /\ lastSettled' = Settled(hash, "failed")
              /\ event' = ev("noapi")
         ELSE /\ toasts' = toasts \cup {[id |-> s, msg |-> MSG_UPLOADING]}
              /\ notified' = <<Loading(s, MSG_UPLOADING)>>
              /\ handlers' = [handlers EXCEPT ![s].pc = "sending"]
              /\ loading' = TRUE
              /\ UNCHANGED lastSettled
              /\ event' = ev("sent")
  /\ UNCHANGED <<file, hexColor, preview, previousHash, apiUrl, writes, hexFile>>

\* calculateFileHash rejects (file.arrayBuffer or crypto.subtle.digest
\* throws): catch and finally run.
HashFail(s) ==
  /\ handlers[s].pc = "hashing"
  /\ toasts' = {}
  /\ notified' = CatchToasts(0)
  /\ handlers' = [handlers EXCEPT ![s] = IdleHandler]
  /\ loading' = FinallyLoading(loading)
  /\ lastSettled' = Settled(Fingerprint[handlers[s].file], "failed")
  /\ event' = [Ev("hashFailed", "failed", s, handlers[s].file, NoResponse, <<>>)
                 EXCEPT !.prior = handlers[s].prior]
  /\ UNCHANGED <<file, hexColor, preview, previousHash, apiUrl, writes, hexFile>>

\* handleUpload, from the settlement of axios.post to the end of `finally`
Response(s, r) ==
  /\ handlers[s].pc = "sending"
  /\ LET h == handlers[s]
         hash == currentHash(s)
         ev(out) == [Ev("response", out, s, h.file, r, <<>>) EXCEPT !.prior = h.prior]
     IN  IF r.ok /\ r.data = "object"
         THEN /\ toasts' = Without(s)
              /\ notified' = <<Dismiss(s), Success(MSG_UPLOADED)>>
              /\ hexColor' = r.hex_color
              /\ hexFile' = h.file
              /\ previousHash' = hash
              /\ lastSettled' = Settled(hash, "succeeded")
              /\ event' = ev("succeeded")
         ELSE IF r.ok
         THEN \* response.data.hex_color throws a TypeError on a null body
              /\ toasts' = {}
              /\ notified' = <<Dismiss(s), Success(MSG_UPLOADED)>> \o CatchToasts(0)
              /\ UNCHANGED <<hexColor, hexFile, previousHash>>
              /\ lastSettled' = Settled(hash, "failed")
              /\ event' = ev("failed")
         ELSE /\ toasts' = {}
              /\ notified' = CatchToasts(r.status)
              /\ UNCHANGED <<hexColor, hexFile, previousHash>>
              /\ lastSettled' = Settled(hash, "failed")
              /\ event' = ev("failed")
  /\ handlers' = [handlers EXCEPT ![s] = IdleHandler]
  /\ loading' = FinallyLoading(loading)
  /\ UNCHANGED <<file, preview, apiUrl, writes>>

\* the setTimeout callback of the duplicate branch, 2000 ms later
Timer(s) ==
  /\ handlers[s].pc = "timer"
  /\ toasts' = Without(s)
  /\ notified' = <<Dismiss(s), Success(MSG_DUP_DONE)>>
  /\ handlers' = [handlers EXCEPT ![s] = IdleHandler]
  /\ event' = [Ev("timer", "done", s, handlers[s].file, NoResponse, <<>>)
                 EXCEPT !.prior = handlers[s].prior]
  /\ UNCHANGED <<file, hexColor, preview, loading, previousHash, apiUrl, writes,
                 hexFile, lastSettled>>

\* ------------------------------------------------------------------- copy
\* {hexColor && (<div onClick={copyToClipboard}>)} and if (hexColor): the
\* swatch is rendered, and the handler acts, only for a truthy hexColor.
CanCopy_always == TRUE

CanCopy == hexColor # "" /\ hexColor # Undefined

\* the text handed to navigator.clipboard.writeText
ClipboardText == hexColor

\* copyToClipboard, up to the return of navigator.clipboard.writeText
copyToClipboard ==
  /\ CanCopy
  /\ writes < MaxCopies
  /\ writes' = writes + 1
  /\ event' = [Ev("copy", "writing", 0, file, NoResponse, <<>>) EXCEPT !.text = ClipboardText]
  /\ notified' = <<>>
  /\ UNCHANGED <<file, hexColor, preview, loading, previousHash, apiUrl, handlers,
                 toasts, hexFile, lastSettled>>

\* the .then (ok) or .catch callback of the oldest unsettled writeText
ClipboardSettled(ok) ==
  /\ writes > 0
  /\ writes' = writes - 1
  /\ event' = Ev("copied", IF ok THEN "written" ELSE "failed", 0, file, NoResponse, <<>>)
  /\ notified' = <<IF ok THEN Success(MSG_COPIED) ELSE Error(MSG_COPY_FAILED)>>
  /\ UNCHANGED <<file, hexColor, preview, loading, previousHash, apiUrl, handlers,
                 toasts, hexFile, lastSettled>>

ClipboardSettledAny == \E ok \in BOOLEAN : ClipboardSettled(ok)

HashDoneAny == \E s \in Slots : HashDone(s)
HashFailAny == \E s \in Slots : HashFail(s)
ResponseAny == \E s \in Slots : \E r \in Responses : Response(s, r)
TimerAny == \E s \in Slots : Timer(s)

Next ==
  \/ FileChange
  \/ ClickUpload
  \/ ClickDisabled
  \/ HashDoneAny
  \/ HashFailAny
  \/ ResponseAny
  \/ TimerAny
  \/ copyToClipboard
  \/ ClipboardSettledAny

Spec == Init /\ [][Next]_vars

\* The hash computation, the network call and the timer of every invocation
\* eventually complete; the user is free to act or not.
Fairness ==
  \A s \in Slots :
    /\ WF_vars(HashDone(s) \/ HashFail(s))
    /\ WF_vars(\E r \in Responses : Response(s, r))
    /\ WF_vars(Timer(s))

\* The behaviours checked for progress: every handler step as in Next, the
\* picker handing over one file at a time (two contents, one rejected file).
LiveFileLists ==
  { <<FileByName("photo.jpg")>>, <<FileByName("edge.png")>>, <<FileByName("big.gif")>> }

LiveFileChange == \E l \in LiveFileLists : handleFileChange(l)

LiveNext ==
  \/ LiveFileChange
  \/ ClickUpload
  \/ ClickDisabled
  \/ HashDoneAny
  \/ HashFailAny
  \/ ResponseAny
  \/ TimerAny

LiveSpec == Init /\ [][LiveNext]_vars /\ Fairness

\* ================================================================= claims
\* The requests to the endpoint that are outstanding.
Requests == { s \in Slots : handlers[s].pc = "sending" }
\* The state fields of the component.
fields == <<file, preview, hexColor, previousHash, loading>>
HasOp(op) == \E i \in 1..Len(notified) : notified[i].op = op
Shows(id) == \E t \in toasts : t.id = id

\* C1: in every reachable state at most one request to the endpoint is
\* outstanding.
C1_OneRequestInFlight == Cardinality(Requests) <= 1

\* C2: in every reachable state Result Color is empty or was returned for a
\* submission of the bytes of the file that is currently selected.
C2_ResultMatchesFile == hexColor = "" \/ hexFile.bytes = file.bytes

\* C3 as stated: a submission of the same bytes as the submission that
\* settled last issues no network call, whatever the outcome and timing of
\* that earlier submission.
C3_RepeatNeverSends ==
  (event.kind = "hashed" /\ event.out = "sent")
    => lastSettled.hash # calculateFileHash(event.file)

\* C3 amended: a submission triggered when the submission that settled last
\* was of the same bytes and got a successful response issues no network
\* call; once its fingerprint is computed it shows the pending "already
\* processed" notification and arms the timer, and the timer step replaces
\* that notification by the success one.
C3_RepeatAfterSuccess ==
  /\ \A s \in Slots : handlers[s].prior = "succeeded" => handlers[s].pc # "sending"
  /\ (event.kind = "hashed" /\ event.prior = "succeeded")
       => /\ event.out = "duplicate"
          /\ notified = <<Loading(event.slot, MSG_DUP_PENDING)>>
          /\ handlers[event.slot].pc = "timer"
          /\ [id |-> event.slot, msg |-> MSG_DUP_PENDING] \in toasts
  /\ (event.kind = "timer" /\ event.prior = "succeeded")
       => /\ notified = <<Dismiss(event.slot), Success(MSG_DUP_DONE)>>
          /\ ~Shows(event.slot)

C3_Witness ==
  /\ event.kind = "timer"
  /\ event.prior = "succeeded"
  /\ lastSettled = [hash |-> calculateFileHash(event.file), out |-> "duplicate"]

C5_NoFileRejected ==
  [][(file = NoFile /\ event'.kind = "click")
       => /\ notified' = <<Error(MSG_NO_FILE)>>
          /\ UNCHANGED <<fields, handlers, toasts>>
          /\ loading' = FALSE]_vars

C5_Witness ==
  /\ event.kind = "click"
  /\ event.out = "nofile"
  /\ file = NoFile
  /\ notified = <<Error(MSG_NO_FILE)>>

\* C6: intake of a file of at most 3 MiB with a JPEG or PNG media type
\* succeeds from any state: the file becomes the Selected File, a new Preview
\* Reference is derived from it, Result Color becomes empty, nothing is
\* notified, no request is issued, Busy Flag and Last-Submitted Fingerprint
\* are unchanged.
C6_ValidIntake ==
  [][(/\ event'.kind = "fileChange"
      /\ event'.list # <<>>
      /\ event'.list[1].size <= 3 * 1024 * 1024
      /\ event'.list[1].type \in {"image/jpeg", "image/png", "image/jpg"})
       => /\ file' = event'.list[1]
          /\ preview' # preview
          /\ preview'.of = event'.list[1].name
          /\ hexColor' = ""
          /\ notified' = <<>>
          /\ UNCHANGED <<loading, previousHash, handlers, toasts>>]_vars

C6_Witness ==
  /\ event.kind = "fileChange"
  /\ event.out = "accepted"
  /\ file.size = 3 * 1024 * 1024
  /\ preview.of = file.name
  /\ hexColor = ""
  /\ previousHash # ""
  /\ Requests # {}

\* C7: a rejected intake (size above 3 MiB, or a media type that is not
\* JPEG/PNG) changes no state field and starts nothing; its only effect is
\* one error notification: the size message for an oversized file, the type
\* message for a file that only has a disallowed type.
C7_RejectedIntake ==
  [][(/\ event'.kind = "fileChange"
      /\ event'.list # <<>>
      /\ \/ event'.list[1].size > 3 * 1024 * 1024
         \/ event'.list[1].type \notin {"image/jpeg", "image/png", "image/jpg"})
       => /\ UNCHANGED <<fields, handlers, toasts>>
          /\ notified' = <<Error(IF event'.list[1].size > 3 * 1024 * 1024
                                 THEN MSG_SIZE ELSE MSG_TYPE)>>]_vars

C7_Witness ==
  /\ event.kind = "fileChange"
  /\ event.out = "rejected"
  /\ event.file.size > 3 * 1024 * 1024
  /\ event.file.type = "image/gif"
  /\ file # NoFile
  /\ hexColor \in Colors
  /\ notified = <<Error(MSG_SIZE)>>

\* C8: when a request succeeds with a payload that has a hex color, at
\* settlement the "working" notification of that submission is dismissed, one
\* success notification is shown, Result Color is the response's hex color
\* and Last-Submitted Fingerprint is the digest of the file the submission
\* captured when it started.
C8_SuccessSettlement ==
  (/\ event.kind = "response"
   /\ event.resp.ok
   /\ event.resp.data = "object"
   /\ event.resp.hex_color \in Colors)
    => /\ notified = <<Dismiss(event.slot), Success(MSG_UPLOADED)>>
       /\ ~Shows(event.slot)
       /\ hexColor = event.resp.hex_color
       /\ previousHash = calculateFileHash(event.file)

C8_Witness ==
  /\ event.kind = "response"
  /\ event.resp.ok
  /\ event.resp.hex_color \in Colors
  /\ file.bytes # event.file.bytes
  /\ previousHash = calculateFileHash(event.file)
  /\ hexColor = event.resp.hex_color

\* C9: a submission that fails after it started sending (anything but a
\* 2xx response whose payload has a hex color) shows exactly one failure
\* notification and no success notification, its "working" notification is
\* dismissed, and the message is the oversized-file one exactly when the
\* server answered 413.
C9_OneFailureNotification ==
  (/\ event.kind = "response"
   /\ ~(event.resp.ok /\ event.resp.data = "object" /\ event.resp.hex_color \in Colors))
    => /\ Cardinality({ i \in 1..Len(notified) : notified[i].op = "error" }) = 1
       /\ ~HasOp("success")
       /\ ~Shows(event.slot)
       /\ \A i \in 1..Len(notified) :
            notified[i].op = "error" =>
              notified[i].msg = (IF event.resp.status = 413 THEN MSG_TOO_LARGE
                                 ELSE MSG_FAILED)

\* C10: a submission whose request failed leaves Result Color, Selected File,
\* Preview Reference and Last-Submitted Fingerprint as they were, returns the
\* Busy Flag to false, and the next submission of the same file is not a
\* duplicate (Last-Submitted Fingerprint is not the fingerprint of the file).
C10_FailureLeavesFresh ==
  [][(event'.kind = "response" /\ ~event'.resp.ok)
       => /\ UNCHANGED <<hexColor, file, preview, previousHash>>
          /\ loading' = FALSE
          /\ previousHash' # calculateFileHash(event'.file)]_vars

\* The submissions in flight: started and not settled.
InFlight == { s \in Slots : handlers[s].pc \in {"hashing", "sending"} }

\* C11: in every reachable state the Busy Flag is true exactly when a
\* submission is in flight (here: its request is outstanding); in particular
\* it is never false while a request is outstanding.
C11_BusyIffInFlight == loading <=> Requests # {}

\* C12: under LiveSpec every submission attempt eventually settles, with the
\* Busy Flag false at its settlement, and the Busy Flag never stays true
\* forever.
C12_BusyEventuallyCleared ==
  /\ \A s \in Slots : (s \in InFlight) ~> (s \notin InFlight /\ ~loading)
  /\ loading ~> ~loading

C12_Witness ==
  /\ event.kind = "response"
  /\ event.out = "failed"
  /\ ~loading
  /\ InFlight = {}

\* C13: the copy action is taken only with a non-empty Result Color; it hands
\* exactly the current Result Color to the clipboard; when the write settles,
\* the copy-success notification is shown if it succeeded and the distinct
\* copy-failure notification if it failed; both steps leave Selected File,
\* Preview Reference, Result Color, Busy Flag and Last-Submitted Fingerprint
\* unchanged, and neither issues a request nor disturbs a submission in flight.
C13_CopyOnlyCopies ==
  [][ /\ (event'.kind = "copy" =>
            /\ hexColor \in Colors
            /\ event'.text = hexColor
            /\ writes' = writes + 1
            /\ notified' = <<>>)
      /\ (event'.kind = "copied" =>
            /\ writes' = writes - 1
            /\ notified' = <<IF event'.out = "written"
                             THEN Success(MSG_COPIED) ELSE Error(MSG_COPY_FAILED)>>
            /\ MSG_COPIED # MSG_COPY_FAILED)
      /\ (event'.kind \in {"copy", "copied"} =>
            /\ UNCHANGED fields
            /\ UNCHANGED <<handlers, toasts>>) ]_vars

C13_Witness ==
  /\ event.kind = "copied"
  /\ event.out = "failed"
  /\ Requests # {}
  /\ hexColor \in Colors
  /\ file # NoFile

\* C14: a 2xx response whose payload has no hex color is handled as a
\* failure: the generic failure notification is shown and no success
\* notification, and Result Color and Last-Submitted Fingerprint keep their
\* values (so the same file is sent again by a later submission).
C14_MalformedIsFailure ==
  [][ (/\ event'.kind = "response"
       /\ event'.resp.ok
       /\ event'.resp.hex_color \notin Colors)
        => /\ \E i \in 1..Len(notified') : notified'[i] = Error(MSG_FAILED)
           /\ \A i \in 1..Len(notified') : notified'[i].op # "success"
           /\ UNCHANGED <<hexColor, previousHash>> ]_vars

\* C15: intake reports the first rule that fails, size before media type, with
\* exactly one rejection notification: a file that is both above 3 MiB and
\* not JPEG/PNG gets the size message; the outcome depends on the first
\* element of the list only; an empty list has no effect.
C15_FirstRuleFirstFile ==
  [][ event'.kind = "fileChange" =>
        IF event'.list = <<>>
        THEN /\ UNCHANGED <<fields, handlers, toasts, writes>>
             /\ notified' = <<>>
        ELSE LET f == event'.list[1]
                 big == f.size > MaxFileSize
                 odd == f.type \notin AllowedTypes
             IN  /\ big => notified' = <<Error(MSG_SIZE)>>
                 /\ (~big /\ odd) => notified' = <<Error(MSG_TYPE)>>
                 /\ (big \/ odd) => UNCHANGED <<fields, handlers, toasts, writes>>
                 /\ ~(big \/ odd) => (file' = f /\ notified' = <<>>) ]_vars

C15_Witness ==
  /\ event.kind = "fileChange"
  /\ Len(event.list) = 2
  /\ event.list[1].size > MaxFileSize
  /\ event.list[1].type \notin AllowedTypes
  /\ fileSchema(event.list[2]) = <<>>
  /\ notified = <<Error(MSG_SIZE)>>
  /\ file # NoFile
  /\ file # event.list[2]

\* C16: a submission sends a request only when the fingerprint it computed
\* differs from the Last-Submitted Fingerprint it compared against (the one
\* it captured at the click); when they are equal it sends nothing, shows the
\* pending "already processed" notification, leaves the Busy Flag false when
\* it was false (it never sets it), keeps Selected File, Preview Reference,
\* Result Color and Last-Submitted Fingerprint, and its delayed step replaces
\* the pending notification by the success one without sending either.
C16_DuplicateShortCircuit ==
  [][ /\ (event'.kind = "hashed" =>
            LET s == event'.slot
                same == Fingerprint[handlers[s].file] = handlers[s].previousHash
            IN  /\ (s \in Requests') => ~same
                /\ same =>
                     /\ event'.out = "duplicate"
                     /\ Requests' = Requests
                     /\ notified' = <<Loading(s, MSG_DUP_PENDING)>>
                     /\ ~loading'
                     /\ UNCHANGED <<file, preview, hexColor, previousHash>>)
      /\ (event'.kind = "timer" =>
            /\ handlers[event'.slot].previousHash = Fingerprint[handlers[event'.slot].file]
            /\ notified' = <<Dismiss(event'.slot), Success(MSG_DUP_DONE)>>
            /\ Requests' = Requests
            /\ UNCHANGED fields) ]_vars

C16_Witness ==
  /\ event.kind = "timer"
  /\ event.prior = "succeeded"
  /\ notified = <<Dismiss(event.slot), Success(MSG_DUP_DONE)>>
  /\ previousHash # ""
  /\ previousHash # calculateFileHash(event.file)

\* C17: with no endpoint address configured, a submission of a file whose
\* fingerprint is not the Last-Submitted Fingerprint it captured sends no
\* request, shows the "working" notification and dismisses it, shows exactly
\* one failure notification (the generic one) and no success notification,
\* keeps Result Color and Last-Submitted Fingerprint, and ends with the Busy
\* Flag false.
C17_MissingEndpoint ==
  [][ (/\ event'.kind = "hashed"
       /\ ~apiUrl
       /\ Fingerprint[handlers[event'.slot].file] # handlers[event'.slot].previousHash)
        => /\ Requests' = {}
           /\ notified' = <<Loading(event'.slot, MSG_UPLOADING), DismissAll, Error(MSG_FAILED)>>
           /\ \A t \in toasts' : t.id # event'.slot
           /\ handlers'[event'.slot].pc = "idle"
           /\ UNCHANGED <<hexColor, previousHash>>
           /\ ~loading' ]_vars

C17_Witness ==
  /\ event.kind = "hashed"
  /\ event.out = "noapi"
  /\ ~apiUrl
  /\ notified = <<Loading(event.slot, MSG_UPLOADING), DismissAll, Error(MSG_FAILED)>>
  /\ ~loading
  /\ file = event.file
  /\ previousHash = ""

\* C18: the "working" notification of a submission is on screen for as long
\* as its request is outstanding, and the pending "already processed"
\* notification of a short-circuited submission is on screen until its own
\* delayed step runs: no step of another submission removes either.
C18_OwnToastStays ==
  \A s \in Slots :
    /\ handlers[s].pc = "sending" => [id |-> s, msg |-> MSG_UPLOADING] \in toasts
    /\ handlers[s].pc = "timer" => [id |-> s, msg |-> MSG_DUP_PENDING] \in toasts

\* C19: when a submission of the file that is still selected settles without
\* a failure notification (a successful response carrying a hex color, or a
\* duplicate short-circuit), Result Color is not empty.
C19_SettledShowsColor ==
  (/\ event.file = file
   /\ \/ /\ event.kind = "response"
         /\ event.out = "succeeded"
         /\ event.resp.hex_color \in Colors
      \/ /\ event.kind = "hashed"
         /\ event.out = "duplicate")
    => hexColor # ""

============================================================================
